---- MODULE Spec2Model ----
(***************************************************************************)
(* Model of the ilox front end: Scanner (scanner.rs), Parser (parser.rs)   *)
(* and AstPrinter (expr.rs), driven the way parser.rs::test_parser drives  *)
(* them: scan the source, keep the tokens of the result, parse one         *)
(* expression, print it.                                                   *)
(*                                                                         *)
(* Characters are one-character strings and a source text is a sequence   *)
(* of them.  The code counts `current` in characters (chars().nth) but     *)
(* tests the end of input and slices lexemes in bytes (String::len,        *)
(* &source[a..b]); Utf8Len gives each character its width in bytes, so the *)
(* two agree exactly on ASCII sources.  Offsets are 0-based as in the      *)
(* code; sequences are 1-based, so the character at index i is             *)
(* source[i + 1].                                                          *)
(* A Rust panic (Option::unwrap on None, panic!) is a terminal outcome:    *)
(* the `panicked` field of a scanner or parser value, phase = "panic".     *)
(***************************************************************************)
EXTENDS Integers, Sequences, FiniteSets, TLC

VARIABLES
    source,     \* Scanner.source
    current,    \* Scanner.current
    line,       \* Scanner.line
    start,      \* Scanner.start
    tokens,     \* Scanner.tokens : Vec<ScannerResult>
    phase,      \* position of the driver: scanning, scanned, filtered, parsed, printed, panic
    panicked,   \* which component panicked: "none", "scanner", "parser"
    ptokens,    \* Parser.tokens : Vec<Token>
    pcurrent,   \* Parser.current
    expr,       \* the Expression returned by Parser::expression
    output      \* the String returned by AstPrinter::print

vars == <<source, current, line, start, tokens, phase, panicked,
          ptokens, pcurrent, expr, output>>

(***************************** bounds **************************************)
\* longest source text drawn from Alphabet
MaxLen == 4
\* most binary operators in an arithmetic chain
MaxOps == 3

(***************************** characters **********************************)
\* what Scanner::peek returns at the end of the input ('\0')
NUL == "NUL"

Digits == {"0", "1", "2", "3", "4", "5", "6", "7", "8", "9"}

\* the alphabetic characters of the model: the ASCII letters and, standing for
\* the alphabetic characters outside ASCII, U+00E9
Letters == {"a", "b", "c", "d", "e", "f", "g", "h", "i", "j", "k", "l", "m",
            "n", "o", "p", "q", "r", "s", "t", "u", "v", "w", "x", "y", "z",
            "A", "B", "C", "D", "E", "F", "G", "H", "I", "J", "K", "L", "M",
            "N", "O", "P", "Q", "R", "S", "T", "U", "V", "W", "X", "Y", "Z",
            "é"}

\* char::len_utf8: the bytes a character takes in the String
Utf8Len(c) == IF c = "é" THEN 2 ELSE 1

is_digit(c) == c \in Digits

is_alphabetic(c) == c \in Letters

DigitVal(c) ==
    CASE c = "0" -> 0 [] c = "1" -> 1 [] c = "2" -> 2 [] c = "3" -> 3
      [] c = "4" -> 4 [] c = "5" -> 5 [] c = "6" -> 6 [] c = "7" -> 7
      [] c = "8" -> 8 [] c = "9" -> 9

DigitChar(d) ==
    CASE d = 0 -> "0" [] d = 1 -> "1" [] d = 2 -> "2" [] d = 3 -> "3"
      [] d = 4 -> "4" [] d = 5 -> "5" [] d = 6 -> "6" [] d = 7 -> "7"
      [] d = 8 -> "8" [] d = 9 -> "9"

KEYWORDS ==
    (<<"a", "n", "d">> :> "And") @@
    (<<"c", "l", "a", "s", "s">> :> "Class") @@
    (<<"e", "l", "s", "e">> :> "Else") @@
    (<<"f", "a", "l", "s", "e">> :> "False") @@
    (<<"f", "u", "n">> :> "Fun") @@
    (<<"f", "o", "r">> :> "For") @@
    (<<"i", "f">> :> "If") @@
    (<<"n", "i", "l">> :> "Nil") @@
    (<<"o", "r">> :> "Or") @@
    (<<"p", "r", "i", "n", "t">> :> "Print") @@
    (<<"r", "e", "t", "u", "r", "n">> :> "Return") @@
    (<<"s", "u", "p", "e", "r">> :> "Super") @@
    (<<"t", "h", "i", "s">> :> "This") @@
    (<<"t", "r", "u", "e">> :> "True") @@
    (<<"v", "a", "r">> :> "Var") @@
    (<<"w", "h", "i", "l", "e">> :> "While")

(***************************** literal values ******************************)
\* Option<Literal>::None
None == [tag |-> "None"]

\* Literal::Str(String)
Str(s) == [tag |-> "Str", s |-> s]

\* Literal::Number(f64).  A finite f64 is kept as the exact decimal
\* (-1)^neg * mant / 10^scale with no trailing zero in the fraction, which is
\* the value (and the shortest decimal form) of every literal of at most 15
\* significant digits; special is "inf" or "nan" for the values that are not
\* finite, else "none".
Number(neg, mant, scale) ==
    [tag |-> "Number", neg |-> neg, mant |-> mant, scale |-> scale,
     special |-> "none"]

NotFinite(neg, kind) ==
    [tag |-> "Number", neg |-> neg, mant |-> 0, scale |-> 0, special |-> kind]

RECURSIVE Pow10(_)
Pow10(k) == IF k = 0 THEN 1 ELSE 10 * Pow10(k - 1)

RECURSIVE Normalize(_, _, _)
Normalize(neg, mant, scale) ==
    IF scale > 0 /\ mant % 10 = 0
    THEN Normalize(neg, mant \div 10, scale - 1)
    ELSE Number(neg, mant, scale)

UpperCase == <<"A", "B", "C", "D", "E", "F", "G", "H", "I", "J", "K", "L", "M",
               "N", "O", "P", "Q", "R", "S", "T", "U", "V", "W", "X", "Y", "Z">>

LowerCase == <<"a", "b", "c", "d", "e", "f", "g", "h", "i", "j", "k", "l", "m",
               "n", "o", "p", "q", "r", "s", "t", "u", "v", "w", "x", "y", "z">>

\* u8::to_ascii_lowercase
ToLower(c) ==
    IF \E i \in 1..26 : UpperCase[i] = c
    THEN LowerCase[CHOOSE i \in 1..26 : UpperCase[i] = c]
    ELSE c

LowerText(text) == [i \in 1..Len(text) |-> ToLower(text[i])]

HasSign(text) == text # <<>> /\ text[1] \in {"+", "-"}

Unsigned(text) == IF HasSign(text) THEN Tail(text) ELSE text

IsDigits(text) == \A i \in 1..Len(text) : text[i] \in Digits

\* the index of the first character of text that is in cs, 0 if there is none
FirstOf(text, cs) ==
    LET S == {i \in 1..Len(text) : text[i] \in cs}
    IN  IF S = {} THEN 0 ELSE CHOOSE i \in S : \A j \in S : i <= j

\* the text before / after the exponent marker
MantText(u) ==
    IF FirstOf(u, {"e", "E"}) = 0 THEN u ELSE SubSeq(u, 1, FirstOf(u, {"e", "E"}) - 1)

ExpText(u) == SubSeq(u, FirstOf(u, {"e", "E"}) + 1, Len(u))

IntText(m) == IF FirstOf(m, {"."}) = 0 THEN m ELSE SubSeq(m, 1, FirstOf(m, {"."}) - 1)

FracText(m) == IF FirstOf(m, {"."}) = 0 THEN <<>> ELSE SubSeq(m, FirstOf(m, {"."}) + 1, Len(m))

\* Digit+ | Digit+ '.' Digit* | Digit* '.' Digit+
IsMantissa(m) ==
    /\ IsDigits(IntText(m)) /\ IsDigits(FracText(m))
    /\ Len(IntText(m)) + Len(FracText(m)) >= 1

\* Sign? Digit+
IsExponent(x) == Unsigned(x) # <<>> /\ IsDigits(Unsigned(x))

SpecialKind(u) ==
    CASE LowerText(u) \in {<<"i", "n", "f">>, <<"i", "n", "f", "i", "n", "i", "t", "y">>} -> "inf"
      [] LowerText(u) = <<"n", "a", "n">> -> "nan"
      [] OTHER -> "none"

\* str::parse::<f64> returns Ok: Sign? ('inf' | 'infinity' | 'nan' | Number Exp?)
parse_f64_ok(text) ==
    LET u == Unsigned(text)
    IN  \/ SpecialKind(u) # "none"
        \/ /\ IsMantissa(MantText(u))
           /\ FirstOf(u, {"e", "E"}) = 0 \/ IsExponent(ExpText(u))

RECURSIVE DigitsValue(_)
DigitsValue(text) ==
    IF text = <<>> THEN 0
    ELSE DigitsValue(SubSeq(text, 1, Len(text) - 1)) * 10 + DigitVal(text[Len(text)])

\* the value str::parse::<f64> returns where it returns Ok ("1." is 1.0);
\* exact while the digits fit the integers of the model
parse_f64(text) ==
    LET u == Unsigned(text)
        neg == HasSign(text) /\ text[1] = "-"
        m == MantText(u)
        x == ExpText(u)
        e == IF FirstOf(u, {"e", "E"}) = 0 THEN 0
             ELSE IF HasSign(x) /\ x[1] = "-" THEN 0 - DigitsValue(Unsigned(x))
             ELSE DigitsValue(Unsigned(x))
        mant == DigitsValue(IntText(m) \o FracText(m))
        shift == Len(FracText(m)) - e
    IN  IF SpecialKind(u) # "none" THEN NotFinite(neg, SpecialKind(u))
        ELSE IF shift >= 0 THEN Normalize(neg, mant, shift)
        ELSE Normalize(neg, mant * Pow10(0 - shift), 0)

(***************************** scanner *************************************)
Token(token_type, lexeme, ln, value) ==
    [token_type |-> token_type, lexeme |-> lexeme, line |-> ln, value |-> value]

ScannerError(ln, column, message) ==
    [line |-> ln, column |-> column, message |-> message]

ResultToken(t) == [tag |-> "Token", token |-> t]

ResultError(e) == [tag |-> "Error", error |-> e]

\* Scanner::new
new_scanner(src) ==
    [source |-> src, current |-> 0, line |-> 1, start |-> 0,
     tokens |-> <<>>, panicked |-> FALSE]

RECURSIVE ByteLen(_)
\* String::len: the length in bytes
ByteLen(src) ==
    IF src = <<>> THEN 0 ELSE Utf8Len(Head(src)) + ByteLen(Tail(src))

\* the byte offset at which the character of index k starts
ByteOffset(src, k) == ByteLen(SubSeq(src, 1, k))

\* str::is_char_boundary
is_char_boundary(src, b) == \E k \in 0..Len(src) : ByteOffset(src, k) = b

\* the index of the character that starts at the boundary b
CharIndex(src, b) == CHOOSE k \in 0..Len(src) : ByteOffset(src, k) = b

\* &source[a..b] does not panic: both byte offsets are character boundaries
slice_ok(src, a, b) ==
    a <= b /\ is_char_boundary(src, a) /\ is_char_boundary(src, b)

\* &source[a..b] with 0-based half-open byte offsets
Slice(src, a, b) == SubSeq(src, CharIndex(src, a) + 1, CharIndex(src, b))

\* a panic unwinds the scan: nothing after it runs
panic(sc) == [sc EXCEPT !.panicked = TRUE]

is_at_end(sc) == sc.current >= ByteLen(sc.source)

\* source.chars().nth(current) is Some
has_char(sc) == sc.current < Len(sc.source)

\* Scanner::peek does not panic: it returns '\0' at the end, else unwraps
peek_ok(sc) == is_at_end(sc) \/ has_char(sc)

\* Scanner::peek, where it does not panic
peek(sc) == IF is_at_end(sc) THEN NUL ELSE sc.source[sc.current + 1]

\* the character Scanner::advance returns, when there is one
advance_char(sc) == sc.source[sc.current + 1]

\* Scanner::advance: chars().nth(current).unwrap() panics past the last character
advance(sc) ==
    IF sc.panicked THEN sc
    ELSE IF ~has_char(sc) THEN panic(sc)
    ELSE [sc EXCEPT !.current = @ + 1]

\* Scanner::match_next returns true
match_next_hit(sc, c) ==
    ~sc.panicked /\ ~is_at_end(sc) /\ has_char(sc) /\ sc.source[sc.current + 1] = c

\* Scanner::match_next: the scanner after the call
match_next(sc, c) ==
    IF sc.panicked \/ is_at_end(sc) THEN sc
    ELSE IF ~has_char(sc) THEN panic(sc)
    ELSE IF sc.source[sc.current + 1] = c THEN [sc EXCEPT !.current = @ + 1]
    ELSE sc

emit(sc, token_type, value) ==
    IF sc.panicked THEN sc
    ELSE IF ~slice_ok(sc.source, sc.start, sc.current) THEN panic(sc)
    ELSE [sc EXCEPT !.tokens = Append(@, ResultToken(
            Token(token_type, Slice(sc.source, sc.start, sc.current), sc.line, value)))]

emit_error(sc, message) ==
    IF sc.panicked THEN sc
    ELSE [sc EXCEPT !.tokens = Append(@, ResultError(
            ScannerError(sc.line, sc.current, message)))]

RECURSIVE skip_digits(_)
\* while self.peek().is_digit(10) { self.advance(); }
skip_digits(sc) ==
    IF sc.panicked THEN sc
    ELSE IF ~peek_ok(sc) THEN panic(sc)
    ELSE IF is_digit(peek(sc)) THEN skip_digits(advance(sc))
    ELSE sc

scan_number(sc) ==
    LET s1 == skip_digits(sc)
        s2 == IF s1.panicked THEN s1
              ELSE IF peek(s1) = "." THEN skip_digits(advance(s1))
              ELSE s1
    IN  IF s2.panicked THEN s2
        ELSE IF ~slice_ok(s2.source, s2.start, s2.current) THEN panic(s2)
        ELSE IF ~parse_f64_ok(Slice(s2.source, s2.start, s2.current)) THEN panic(s2)
        ELSE emit(s2, "Number", parse_f64(Slice(s2.source, s2.start, s2.current)))

RECURSIVE skip_identifier(_)
skip_identifier(sc) ==
    IF sc.panicked THEN sc
    ELSE IF ~peek_ok(sc) THEN panic(sc)
    ELSE IF is_alphabetic(peek(sc)) \/ is_digit(peek(sc)) \/ peek(sc) = "_"
    THEN skip_identifier(advance(sc))
    ELSE sc

scan_identifier_or_keyword(sc) ==
    LET s1 == skip_identifier(sc)
    IN  IF s1.panicked THEN s1
        ELSE IF ~slice_ok(s1.source, s1.start, s1.current) THEN panic(s1)
        ELSE LET value == Slice(s1.source, s1.start, s1.current)
             IN  IF value \in DOMAIN KEYWORDS
                 THEN emit(s1, KEYWORDS[value], None)
                 ELSE emit(s1, "Identifier", Str(value))

\* skip_string with the newline count left out
RECURSIVE skip_string_mut(_)
skip_string_mut(sc) ==
    IF sc.panicked THEN sc
    ELSE IF ~peek_ok(sc) THEN panic(sc)
    ELSE IF peek(sc) # "\"" /\ ~is_at_end(sc)
    THEN skip_string_mut(advance(sc))
    ELSE sc

RECURSIVE skip_string(_)
\* while self.peek() != '"' && !self.is_at_end() { count newline; advance }
skip_string(sc) ==
    IF sc.panicked THEN sc
    ELSE IF ~peek_ok(sc) THEN panic(sc)
    ELSE IF peek(sc) # "\"" /\ ~is_at_end(sc)
    THEN skip_string(advance(
            IF peek(sc) = "\n" THEN [sc EXCEPT !.line = @ + 1] ELSE sc))
    ELSE sc

scan_string(sc) ==
    LET s1 == skip_string(sc)
    IN  IF s1.panicked THEN s1
        ELSE IF is_at_end(s1)
        THEN emit_error(s1, <<"Unterminated string">>)
        ELSE LET s2 == advance(s1)
             IN  IF s2.panicked THEN s2
                 ELSE IF ~slice_ok(s2.source, s2.start + 1, s2.current - 1)
                 THEN panic(s2)
                 ELSE emit(s2, "String",
                           Str(Slice(s2.source, s2.start + 1, s2.current - 1)))

RECURSIVE skip_comment(_)
\* while self.peek() != '\n' { self.advance(); }   (no end-of-input test)
skip_comment(sc) ==
    IF sc.panicked THEN sc
    ELSE IF ~peek_ok(sc) THEN panic(sc)
    ELSE IF peek(sc) # "\n" THEN skip_comment(advance(sc))
    ELSE sc

scan_slash(sc) ==
    IF match_next_hit(sc, "/")
    THEN skip_comment(match_next(sc, "/"))
    ELSE emit(match_next(sc, "/"), "Slash", None)

\* '!' '<' '>' '=' : one character of lookahead for '='
scan_one_or_two(sc, plain, compound) ==
    IF match_next_hit(sc, "=")
    THEN emit(match_next(sc, "="), compound, None)
    ELSE emit(match_next(sc, "="), plain, None)

\* Scanner::scan_token; called only when is_at_end is false
scan_token(sc) ==
    IF ~has_char(sc) THEN panic(sc)
    ELSE
    LET c == advance_char(sc)
        s == advance(sc)
    IN  CASE c = "(" -> emit(s, "LeftParen", None)
          [] c = ")" -> emit(s, "RightParen", None)
          [] c = "{" -> emit(s, "LeftBrace", None)
          [] c = "}" -> emit(s, "RightBrace", None)
          [] c = "," -> emit(s, "Comma", None)
          [] c = "." -> emit(s, "Dot", None)
          [] c = "-" -> emit(s, "Minus", None)
          [] c = "+" -> emit(s, "Plus", None)
          [] c = ";" -> emit(s, "Semicolon", None)
          [] c = "*" -> emit(s, "Star", None)
          [] c = "!" -> scan_one_or_two(s, "Bang", "BangEqual")
          [] c = "<" -> scan_one_or_two(s, "Less", "LessEqual")
          [] c = ">" -> scan_one_or_two(s, "Greater", "GreaterEqual")
          [] c = "=" -> scan_one_or_two(s, "Equal", "EqualEqual")
          [] c = "/" -> scan_slash(s)
          [] c = "\"" -> scan_string(s)
          [] c \in {" ", "\r", "\t"} -> s
          [] c = "\n" -> [s EXCEPT !.line = @ + 1]
          [] OTHER ->
                IF is_digit(c) THEN scan_number(s)
                ELSE IF is_alphabetic(c) THEN scan_identifier_or_keyword(s)
                ELSE emit_error(s, <<"Unexpected character", c>>)

(***************************** expressions *********************************)
Binary(left, op, right) ==
    [kind |-> "Binary", left |-> left, op |-> op, right |-> right]

Grouping(inner) == [kind |-> "Grouping", expr |-> inner]

Literal(value) == [kind |-> "Literal", value |-> value]

Unary(op, right) == [kind |-> "Unary", op |-> op, right |-> right]

\* the driver's expr before Parser::expression has returned
NoExpr == [kind |-> "NoExpr"]

(***************************** parser **************************************)
\* A parser value is the Parser (tokens, current) together with the
\* Expression the last call returned and whether a call panicked.
new_parser(toks) ==
    [tokens |-> toks, current |-> 0, panicked |-> FALSE, expr |-> NoExpr]

\* Parser::peek is tokens.get(current)
has_peek(p) == p.current < Len(p.tokens)

peek_token(p) == p.tokens[p.current + 1]

\* Parser::next followed by unwrap(): current is incremented first, then
\* tokens.get(current - 1) is None beyond the end and unwrap panics
next(p) ==
    IF p.current + 1 > Len(p.tokens)
    THEN [p EXCEPT !.current = @ + 1, !.panicked = TRUE]
    ELSE [p EXCEPT !.current = @ + 1]

match_token(p, type1, type2) ==
    has_peek(p) /\ peek_token(p).token_type \in {type1, type2}

fail(p) == [p EXCEPT !.panicked = TRUE]

RECURSIVE expression(_), equality(_), equality_loop(_), comparison(_),
          comparison_loop(_), term(_), term_loop(_), factor(_),
          factor_loop(_), unary(_), primary(_)

primary(p) ==
    IF match_token(p, "LeftParen", "RightParen")
    THEN LET e == expression(next(p))
         IN  IF e.panicked THEN e ELSE next(e)
    ELSE IF match_token(p, "Number", "String")
    THEN LET tok == peek_token(p)
         IN  IF tok.value.tag = "None" THEN fail(next(p))
             ELSE [next(p) EXCEPT !.expr = Literal(tok.value)]
    ELSE fail(p)

unary(p) ==
    IF match_token(p, "Minus", "Minus")
    THEN LET op == peek_token(p)
             right == unary(next(p))
         IN  IF right.panicked THEN right
             ELSE [right EXCEPT !.expr = Unary(op, right.expr)]
    ELSE primary(p)

\* one turn of factor's while loop; r.expr is the expression built so far
factor_loop(r) ==
    IF r.panicked THEN r
    ELSE IF match_token(r, "Slash", "Star")
    THEN LET op == peek_token(r)
             right == unary(next(r))
         IN  IF right.panicked THEN right
             ELSE factor_loop([right EXCEPT !.expr = Binary(r.expr, op, right.expr)])
    ELSE r

factor(p) == factor_loop(unary(p))

\* term with its operands parsed by unary: the factor level is skipped
RECURSIVE term_loop_mut(_)
term_loop_mut(r) ==
    IF r.panicked THEN r
    ELSE IF match_token(r, "Minus", "Plus")
    THEN LET op == peek_token(r)
             right == unary(next(r))
         IN  IF right.panicked THEN right
             ELSE term_loop_mut([right EXCEPT !.expr = Binary(r.expr, op, right.expr)])
    ELSE r

term_mut(p) == term_loop_mut(unary(p))

term_loop(r) ==
    IF r.panicked THEN r
    ELSE IF match_token(r, "Minus", "Plus")
    THEN LET op == peek_token(r)
             right == factor(next(r))
         IN  IF right.panicked THEN right
             ELSE term_loop([right EXCEPT !.expr = Binary(r.expr, op, right.expr)])
    ELSE r

term(p) == term_loop(factor(p))

comparison_loop(r) ==
    IF r.panicked THEN r
    ELSE IF match_token(r, "Greater", "GreaterEqual") \/ match_token(r, "Less", "LessEqual")
    THEN LET op == peek_token(r)
             right == term(next(r))
         IN  IF right.panicked THEN right
             ELSE comparison_loop([right EXCEPT !.expr = Binary(r.expr, op, right.expr)])
    ELSE r

comparison(p) == comparison_loop(term(p))

equality_loop(r) ==
    IF r.panicked THEN r
    ELSE IF match_token(r, "Equal", "BangEqual")
    THEN LET op == peek_token(r)
             right == comparison(next(r))
         IN  IF right.panicked THEN right
             ELSE equality_loop([right EXCEPT !.expr = Binary(r.expr, op, right.expr)])
    ELSE r

equality(p) == equality_loop(comparison(p))

expression(p) == equality(p)

(***************************** printer *************************************)
Chars_group == <<"g", "r", "o", "u", "p">>

RECURSIVE NatChars(_)
\* the decimal digits of a natural number, no leading zero
NatChars(n) ==
    IF n < 10 THEN <<DigitChar(n)>>
    ELSE Append(NatChars(n \div 10), DigitChar(n % 10))

RECURSIVE FracChars(_, _)
\* the k decimal digits of n, leading zeros kept
FracChars(n, k) ==
    IF k = 0 THEN <<>>
    ELSE Append(FracChars(n \div 10, k - 1), DigitChar(n % 10))

\* Display of an f64: the shortest decimal form, "123" for 123.0
fmt_f64(v) ==
    LET sign == IF v.neg THEN <<"-">> ELSE <<>>
    IN  CASE v.special = "nan" -> <<"N", "a", "N">>
          [] v.special = "inf" -> sign \o <<"i", "n", "f">>
          [] OTHER ->
                IF v.scale = 0 THEN sign \o NatChars(v.mant)
                ELSE sign \o NatChars(v.mant \div Pow10(v.scale)) \o <<".">>
                     \o FracChars(v.mant % Pow10(v.scale), v.scale)

\* Display of a literal value: a number in decimal, a string as its raw text
fmt_literal(value) ==
    IF value.tag = "Number" THEN fmt_f64(value) ELSE value.s

\* Display of a Token: its lexeme
fmt_token(tok) == tok.lexeme

RECURSIVE accept(_)
visit_binary(e) ==
    <<"(">> \o fmt_token(e.op) \o <<" ">> \o accept(e.left) \o <<" ">>
            \o accept(e.right) \o <<")">>

visit_grouping(e) == <<"(">> \o Chars_group \o <<" ">> \o accept(e.expr) \o <<")">>

visit_literal(e) == fmt_literal(e.value)

visit_unary(e) ==
    <<"(">> \o fmt_token(e.op) \o <<" ">> \o accept(e.right) \o <<")">>

accept(e) ==
    CASE e.kind = "Binary" -> visit_binary(e)
      [] e.kind = "Grouping" -> visit_grouping(e)
      [] e.kind = "Literal" -> visit_literal(e)
      [] e.kind = "Unary" -> visit_unary(e)

\* AstPrinter::print
print(e) == accept(e)

(***************************** inputs **************************************)
\* the characters short sources are drawn from
Alphabet == {"1", ".", "\"", "\n", "/", "=", "(", ")", "-", "x", "@", "é"}

\* "123 + 45 * 67 + 4", the program of parser.rs::test_parser
TestProgram ==
    <<"1", "2", "3", " ", "+", " ", "4", "5", " ", "*", " ", "6", "7", " ", "+", " ", "4">>

\* longer sources: the examples of the specification's testable properties
Examples ==
    { TestProgram,
      <<"1", " ", "-", " ", "2", " ", "-", " ", "3">>,
      <<"(", "1", " ", "+", " ", "2", ")", " ", "*", " ", "3">>,
      <<"(", "1", " ", "+", " ", "2">>,
      <<"-", " ", "-", " ", "5">>,
      <<"1", "=", "=", "2", "=", "=", "3">>,
      <<"1", "!", "=", "2", "!", "=", "3">>,
      <<"1", "<", "2", "<", "=", "3">>,
      <<"8", "/", "4", "/", "2">>,
      <<"1", ".", "5", "0", "+", "0", "7">>,
      <<"o", "r", " ", "o", "r", "b">>,
      <<"o", "R", " ", "A", "_", "1">>,
      <<"/", "/", "é", "\n", "+", "+">>,
      <<"\"", "a", "\n", "b", "\"", "\n", "1">>,
      <<"1", "/", "/", "x", "\n", "2">> }

Sources == UNION {[1..n -> Alphabet] : n \in 0..MaxLen} \cup Examples

ArithOperators == {"+", "-", "*", "/"}

ArithOperands == {<<"1">>, <<"2", "3">>}

RECURSIVE Chains(_)
\* operand (operator operand)^n
Chains(n) ==
    IF n = 0 THEN ArithOperands
    ELSE {c \o <<op>> \o d : c \in Chains(n - 1), op \in ArithOperators, d \in ArithOperands}

ArithSources == UNION {Chains(n) : n \in 0..MaxOps} \cup {TestProgram}

(***************************** the driver **********************************)
\* the Scanner as a value
Self ==
    [source |-> source, current |-> current, line |-> line, start |-> start,
     tokens |-> tokens, panicked |-> FALSE]

InitWith(src) ==
    /\ source = src
    /\ current = new_scanner(src).current
    /\ line = new_scanner(src).line
    /\ start = new_scanner(src).start
    /\ tokens = new_scanner(src).tokens
    /\ phase = "scanning"
    /\ panicked = "none"
    /\ ptokens = <<>>
    /\ pcurrent = 0
    /\ expr = NoExpr
    /\ output = <<>>

Init == \E src \in Sources : InitWith(src)

InitArith == \E src \in ArithSources : InitWith(src)

\* one turn of scan_tokens' while loop: start = current; scan_token()
ScanToken ==
    /\ phase = "scanning"
    /\ ~is_at_end(Self)
    /\ LET s == scan_token([Self EXCEPT !.start = current])
       IN  /\ current' = s.current
           /\ line' = s.line
           /\ start' = s.start
           /\ tokens' = s.tokens
           /\ phase' = IF s.panicked THEN "panic" ELSE "scanning"
           /\ panicked' = IF s.panicked THEN "scanner" ELSE "none"
    /\ UNCHANGED <<source, ptokens, pcurrent, expr, output>>

\* the end of scan_tokens: the loop is left and the Eof token pushed
ScanEof ==
    /\ phase = "scanning"
    /\ is_at_end(Self)
    /\ tokens' = Append(tokens, ResultToken(Token("Eof", <<>>, line, None)))
    /\ phase' = "scanned"
    /\ UNCHANGED <<source, current, line, start, panicked, ptokens, pcurrent, expr, output>>

\* the filter_map of test_parser: the tokens of the results, errors dropped
filter_tokens(results) ==
    LET kept == SelectSeq(results, LAMBDA r : r.tag = "Token")
    IN  [i \in 1..Len(kept) |-> kept[i].token]

\* Parser::new(filtered)
Filter ==
    /\ phase = "scanned"
    /\ ptokens' = new_parser(filter_tokens(tokens)).tokens
    /\ pcurrent' = new_parser(filter_tokens(tokens)).current
    /\ phase' = "filtered"
    /\ UNCHANGED <<source, current, line, start, tokens, panicked, expr, output>>

\* parser.expression()
Parse ==
    /\ phase = "filtered"
    /\ LET r == expression([new_parser(ptokens) EXCEPT !.current = pcurrent])
       IN  /\ pcurrent' = r.current
           /\ expr' = IF r.panicked THEN NoExpr ELSE r.expr
           /\ phase' = IF r.panicked THEN "panic" ELSE "parsed"
           /\ panicked' = IF r.panicked THEN "parser" ELSE "none"
    /\ UNCHANGED <<source, current, line, start, tokens, ptokens, output>>

\* AstPrinter::print(&expr)
PrintExpr ==
    /\ phase = "parsed"
    /\ output' = print(expr)
    /\ phase' = "printed"
    /\ UNCHANGED <<source, current, line, start, tokens, panicked, ptokens, pcurrent, expr>>

Next == ScanToken \/ ScanEof \/ Filter \/ Parse \/ PrintExpr

Spec == Init /\ [][Next]_vars

SpecArith == InitArith /\ [][Next]_vars

(***************************** helpers for the properties ******************)
\* number of newline characters among the first k characters of the source
NewlinesBefore(k) == Cardinality({i \in 1..k : source[i] = "\n"})

IsToken(r, type) == r.tag = "Token" /\ r.token.token_type = type

IsUnterminated(r) == r.tag = "Error" /\ r.error.message = <<"Unterminated string">>

\* the parser has returned (a tree) / has run (tree or panic)
Parsed == phase \in {"parsed", "printed"}

ParserRan == Parsed \/ (phase = "panic" /\ panicked = "parser")

TypeAt(i) == ptokens[i].token_type

\* the step pushed exactly one result onto tokens
Pushed == Len(tokens') = Len(tokens) + 1

LastPushed == tokens'[Len(tokens')]

(***************************** C1 ******************************************)
AdditiveTypes == {"Plus", "Minus"}

MultiplicativeTypes == {"Star", "Slash"}

\* the largest index of ts holding a token of one of the types, 0 if none
LastIdx(ts, types) ==
    LET S == {i \in 1..Len(ts) : ts[i].token_type \in types}
    IN  IF S = {} THEN 0 ELSE CHOOSE i \in S : \A j \in S : j <= i

RECURSIVE RefTree(_)
\* the tree the grammar assigns to operand (operator operand)*: the root is
\* the rightmost operator of the loosest level present
RefTree(ts) ==
    LET a == LastIdx(ts, AdditiveTypes)
        m == LastIdx(ts, MultiplicativeTypes)
        k == IF a > 0 THEN a ELSE m
    IN  IF k = 0 THEN Literal(ts[1].value)
        ELSE Binary(RefTree(SubSeq(ts, 1, k - 1)), ts[k],
                    RefTree(SubSeq(ts, k + 1, Len(ts))))

\* ptokens without the trailing Eof
Body == SubSeq(ptokens, 1, Len(ptokens) - 1)

\* "(+ (+ 123 (* 45 67)) 4)"
TestOutput ==
    <<"(", "+", " ", "(", "+", " ", "1", "2", "3", " ", "(", "*", " ", "4", "5",
      " ", "6", "7", ")", ")", " ", "4", ")">>

\* the tokens are a op1 b op2 c Eof with op1 additive and op2 multiplicative
IsAddMul ==
    /\ Len(ptokens) = 6
    /\ TypeAt(2) \in AdditiveTypes
    /\ TypeAt(4) \in MultiplicativeTypes

\* "(op1 a (op2 b c))"
AddMulOutput ==
    <<"(">> \o ptokens[2].lexeme \o <<" ">> \o ptokens[1].lexeme \o <<" ", "(">>
    \o ptokens[4].lexeme \o <<" ">> \o ptokens[3].lexeme \o <<" ">>
    \o ptokens[5].lexeme \o <<")", ")">>

\* C1: numbers joined by + - * / always parse, to the tree in which * and /
\* bind tighter than + and -; a + b * c is Binary(+, a, Binary(*, b, c)) and
\* prints "(+ a (* b c))"; the test program prints "(+ (+ 123 (* 45 67)) 4)".
C1_Precedence ==
    /\ panicked = "none"
    /\ Parsed => expr = RefTree(Body)
    /\ (Parsed /\ IsAddMul) =>
          expr = Binary(Literal(ptokens[1].value), ptokens[2],
                        Binary(Literal(ptokens[3].value), ptokens[4],
                               Literal(ptokens[5].value)))
    /\ (phase = "printed" /\ IsAddMul) => output = AddMulOutput
    /\ (phase = "printed" /\ source = TestProgram) => output = TestOutput

C1_Witness == phase = "printed" /\ IsAddMul /\ TypeAt(2) = "Plus" /\ TypeAt(4) = "Star"

(***************************** C2 ******************************************)
Levels ==
    { {"EqualEqual", "BangEqual"},
      {"Greater", "GreaterEqual", "Less", "LessEqual"},
      {"Minus", "Plus"},
      {"Slash", "Star"} }

\* the tokens are x0 op1 x1 ... opn xn Eof, n >= 2, all operators of one level
IsLevelChain ==
    /\ Len(ptokens) >= 6
    /\ Len(ptokens) % 2 = 0
    /\ TypeAt(Len(ptokens)) = "Eof"
    /\ \A i \in 1..(Len(ptokens) - 1) : i % 2 = 1 => TypeAt(i) = "Number"
    /\ \E lv \in Levels :
          \A i \in 1..(Len(ptokens) - 1) : i % 2 = 0 => TypeAt(i) \in lv

RECURSIVE LeftFold(_)
\* ((x0 op1 x1) op2 x2) ...
LeftFold(ts) ==
    IF Len(ts) = 1 THEN Literal(ts[1].value)
    ELSE Binary(LeftFold(SubSeq(ts, 1, Len(ts) - 2)), ts[Len(ts) - 1],
                Literal(ts[Len(ts)].value))

\* C2: a chain of two or more operators of one binary level (equality,
\* comparison, term, factor) parses to the left fold of the chain.
C2_LeftAssoc == (ParserRan /\ IsLevelChain) => (Parsed /\ expr = LeftFold(Body))

(***************************** C3 ******************************************)
RECURSIVE HasGrouping(_)
HasGrouping(e) ==
    CASE e.kind = "Grouping" -> TRUE
      [] e.kind = "Binary" -> HasGrouping(e.left) \/ HasGrouping(e.right)
      [] e.kind = "Unary" -> HasGrouping(e.right)
      [] OTHER -> FALSE

\* "(1 + 2) * 3"
GroupProgram == <<"(", "1", " ", "+", " ", "2", ")", " ", "*", " ", "3">>

\* "(* (group (+ 1 2)) 3)"
GroupOutput ==
    <<"(", "*", " ", "(", "g", "r", "o", "u", "p", " ", "(", "+", " ", "1", " ",
      "2", ")", ")", " ", "3", ")">>

\* C3: a parsed "( expression )" is a Grouping node around the inner
\* expression; "(1 + 2) * 3" prints "(* (group (+ 1 2)) 3)".
C3_Grouping ==
    /\ (Parsed /\ Len(ptokens) >= 3 /\ TypeAt(1) = "LeftParen"
               /\ TypeAt(2) = "Number" /\ TypeAt(3) = "RightParen")
          => HasGrouping(expr)
    /\ (phase = "printed" /\ source = GroupProgram) => output = GroupOutput

(***************************** C4 ******************************************)
\* the token types that continue or close an expression after an operand
ContinuingTypes ==
    UNION Levels \cup {"Equal", "RightParen"}

\* C4: after "(" and a complete inner expression, a token that is not ")"
\* ends the parse in a failure; no tree is returned.
C4_MissingParen ==
    (ParserRan /\ Len(ptokens) >= 3 /\ TypeAt(1) = "LeftParen"
               /\ TypeAt(2) = "Number" /\ TypeAt(3) \notin ContinuingTypes)
       => ~Parsed

(***************************** C5 ******************************************)
\* C5: a token that cannot start a primary gives a failure value, never a
\* panic of the program.
C5_ErrorsAreData ==
    (Len(ptokens) >= 1 /\ TypeAt(1) \notin {"Number", "String", "LeftParen", "Minus"})
       => panicked # "parser"

(***************************** C6 ******************************************)
\* C6: the scan of every source terminates normally, a last line that is a
\* comment without a newline included; the scanner never reads past the end.
C6_CommentsTotal == panicked # "scanner" /\ current <= Len(source)

(***************************** C7 ******************************************)
\* the offset of the first '"' after offset q, -1 if there is none
ClosingQuote(q) ==
    LET S == {j \in (q + 1)..(Len(source) - 1) : source[j + 1] = "\""}
    IN  IF S = {} THEN -1 ELSE CHOOSE j \in S : \A k \in S : j <= k

\* the step scans a token that starts with '"' at offset current
C7_Step ==
    (phase = "scanning" /\ current < Len(source) /\ source[current + 1] = "\"") =>
        LET q == current
            j == ClosingQuote(q)
        IN  /\ Pushed
            /\ SubSeq(tokens', 1, Len(tokens)) = tokens
            /\ phase' = "scanning"
            /\ IF j = -1
               THEN /\ IsUnterminated(LastPushed)
                    /\ current' = Len(source)
               ELSE /\ IsToken(LastPushed, "String")
                    /\ LastPushed.token.value = Str(SubSeq(source, q + 2, j))
                    /\ current' = j + 1

\* the step that follows an unterminated string leaves the loop and pushes Eof
C7_ThenEof ==
    (/\ phase = "scanning" /\ tokens # <<>>
     /\ IsUnterminated(tokens[Len(tokens)])
     /\ current = Len(source) /\ source[start + 1] = "\"") =>
        /\ phase' = "scanned"
        /\ tokens' = Append(tokens, ResultToken(Token("Eof", <<>>, line, None)))

C7_EndsWithEof ==
    phase = "scanned" =>
        /\ IsToken(tokens[Len(tokens)], "Eof")
        /\ \A i \in 1..(Len(tokens) - 1) : ~IsToken(tokens[i], "Eof")

\* C7: an unterminated string pushes exactly one error and no token and
\* leaves the cursor at the end of input; a terminated one pushes exactly one
\* String token whose value is the text between the quotes; a finished scan
\* ends with the one Eof token.
C7_Strings == [][C7_Step /\ C7_ThenEof]_vars /\ []C7_EndsWithEof

C7_Witness ==
    /\ phase = "scanned"
    /\ \E i, j \in 1..Len(tokens) :
          /\ IsToken(tokens[i], "String")
          /\ tokens[i].token.value.s # <<>>
          /\ IsUnterminated(tokens[j])

(***************************** C8 ******************************************)
IsPair(type) ==
    /\ Len(ptokens) = 4
    /\ TypeAt(1) = "Number" /\ TypeAt(2) = type
    /\ TypeAt(3) = "Number" /\ TypeAt(4) = "Eof"

\* C8: a == b is a Binary node with operator ==; in a = b the = is not
\* consumed and the parse stops after a.
C8_EqualityOperators ==
    /\ (Parsed /\ IsPair("EqualEqual")) =>
          (expr.kind = "Binary" /\ expr.op.token_type = "EqualEqual")
    /\ (Parsed /\ IsPair("Equal")) => (expr.kind = "Literal" /\ pcurrent = 1)

(***************************** C9 ******************************************)
\* C9: the lexeme of a Number token never ends with '.'; the '.' after "1"
\* in "1." is a Dot token of its own.
C9_NumberLexeme ==
    /\ \A i \in 1..Len(tokens) :
          IsToken(tokens[i], "Number") =>
              tokens[i].token.lexeme[Len(tokens[i].token.lexeme)] \in Digits
    /\ (/\ phase = "scanned"
        /\ Len(source) >= 2 /\ source[1] \in Digits /\ source[2] = "."
        /\ (Len(source) = 2 \/ source[3] \notin Digits))
          => /\ IsToken(tokens[1], "Number")
             /\ tokens[1].token.lexeme = <<source[1]>>
             /\ IsToken(tokens[2], "Dot")

(***************************** C10 *****************************************)
\* the line a pushed token carries, against the line at the offset `at`
LineIs(at) == LastPushed.token.line = 1 + NewlinesBefore(at)

\* C10 as claimed: every token carries the line of its first character, the
\* Eof token the last line.
C10_LineAtStart ==
    [][(Pushed /\ LastPushed.tag = "Token") =>
          IF LastPushed.token.token_type = "Eof"
          THEN LineIs(Len(source))
          ELSE LineIs(start')]_vars

\* C10 as the code has it: every token carries the line of its last
\* character, which is the line of its first character unless it is a String
\* with a newline inside; the Eof token carries the last line.
C10_LineAtEnd ==
    [][(Pushed /\ LastPushed.tag = "Token") =>
          IF LastPushed.token.token_type = "Eof"
          THEN LineIs(Len(source))
          ELSE /\ LineIs(current')
               /\ LastPushed.token.token_type # "String" => LineIs(start')]_vars

C10_Witness ==
    /\ phase = "scanned"
    /\ \E i \in 1..Len(tokens) :
          /\ IsToken(tokens[i], "String")
          /\ \E k \in 1..Len(tokens[i].token.lexeme) : tokens[i].token.lexeme[k] = "\n"
          /\ tokens[i].token.line > 1

====
